---- MODULE Spec2Model ----
(***************************************************************************)
(* A model of the gravity proxy: the credential rotation of               *)
(* token_manager.py, the stream reassembly of api_client.py, the message  *)
(* translation of utils.py, the request handlers of server.py, and the    *)
(* processes that read and write accounts.json.  Each component has its   *)
(* own specification over the shared variable list; a component's         *)
(* specification leaves the other components' variables at their initial  *)
(* values.                                                                 *)
(***************************************************************************)
EXTENDS Integers, Sequences, FiniteSets, TLC

VARIABLES
    \* ---- token_manager.py -------------------------------------------------
    file,                 \* contents of accounts.json: a sequence of account records
    current_token_index,  \* TokenManager.current_token_index (0-based)
    now,                  \* time.time(), in whole seconds
    last,                 \* what the most recent operation did (history)
    streak,               \* the get_token() calls made back to back (history)
    \* ---- api_client.py: generate_assistant_response -----------------------
    st,                   \* position of the generator: "streaming", "ended", "failed"
    thinking_started,     \* local variable thinking_started
    tool_calls,           \* local variable tool_calls (the pending batch)
    events,               \* every chunk yielded so far, in order
    lines,                \* every line read from the response so far, in order
    \* ---- utils.py: openai_message_to_antigravity --------------------------
    openai_messages,      \* the messages translated so far, in order
    antigravity_messages, \* the upstream turns built so far
    \* ---- server.py: the handlers of POST /v1/chat/completions -------------
    pc,                   \* position of the handler: "idle", "accepted", "built", "reading", "done"
    stream,               \* request.stream
    request_messages,     \* request.messages
    out,                  \* what stream_chat_generator has yielded, in order
    has_tool_call,        \* local variable has_tool_call of stream_chat_generator
    full_content,         \* local variable full_content of create_chat_completion
    kept_tool_calls,      \* local variable tool_calls of create_chat_completion
    result,               \* what create_chat_completion returned or raised
    posts,                \* generation requests POSTed upstream for this request (history)
    acquired,             \* what get_token() returned to this request, in order (history)
    request_ids,          \* the requestId of every body built, in order (history)
    served,               \* requests accepted so far (history)
    upstream_calls,       \* every generation POST: the credential in its header, the answer (history)
    \* ---- the processes around accounts.json, step by step ----------------
    running,              \* the coroutine that holds the event loop, 0 for none
    gt,                   \* per coroutine: where its get_token() is, and its locals
    sv,                   \* where save_token() of oauth_client.py is, and its list
    writes,               \* persists completed so far (history)
    committed,            \* the pool of the last completed persist (history)
    observed              \* what the last read of accounts.json saw (history)

tokVars == <<file, current_token_index, now, last, streak>>
streamVars == <<st, thinking_started, tool_calls, events, lines>>
xlateVars == <<openai_messages, antigravity_messages>>
srvVars == <<pc, stream, request_messages, out, has_tool_call, full_content, kept_tool_calls,
             result, posts, acquired, request_ids, served, upstream_calls>>
concVars == <<running, gt, sv, writes, committed, observed>>
vars == <<tokVars, streamVars, xlateVars, srvVars, concVars>>

-----------------------------------------------------------------------------
\* Bounds of the model.

\* Largest number of records in accounts.json.
MaxPool == 2
\* Largest number of records in accounts.json when the rotation is observed.
MaxRotationPool == 3
\* Largest value of the clock.
MaxTime == 1
\* Largest number of lines read from one upstream response.
MaxLines == 3
\* Largest number of messages in one conversation.
MaxMsgs == 3
\* lines of one upstream response while a request is served
MaxServerLines == 2
\* requests served one after the other
MaxRequests == 2
\* calls of get_token() by one coroutine
MaxCalls == 2

-----------------------------------------------------------------------------
\* token_manager.py

\* The safety margin of the expiry test, in seconds.
ExpiryBuffer == 60

\* Lifetimes (expires_in) a grant may carry: one inside the margin at issue
\* time, one just outside it.
ExpiresIn == {59, 61}

\* Access tokens: the one the consent flow stores and the ones the token
\* endpoint may answer a refresh with.
FirstToken == "at0"
RefreshedTokens == {"at1"}

\* get_token() returning None.
NoIndex == -1

\* account.get("disabled")
is_disabled(account) == account.disabled

\* is_expired = (timestamp + expires_in - 60) < time.time()
is_expired_le(account, t) == (account.timestamp + account.expires_in - ExpiryBuffer) <= t
is_expired(account, t) == (account.timestamp + account.expires_in - ExpiryBuffer) < t

\* index = (self.current_token_index + i) % num_accounts
rotation_index_nocursor(cursor, i, num_accounts) == i % num_accounts
rotation_index(cursor, i, num_accounts) == (cursor + i) % num_accounts

\* self.current_token_index = (index + 1) % num_accounts
advance_stay(index, num_accounts) == index % num_accounts
advance_nowrap(index, num_accounts) == index + 1
advance(index, num_accounts) == (index + 1) % num_accounts

\* for i in range(num_accounts)
scan_range_one(num_accounts) == 1
scan_range(num_accounts) == num_accounts

\* _refresh_token(account): granted says whether the POST to the token
\* endpoint succeeds; access_token and expires_in are what it answers.
\* Returns [ok |-> FALSE] for None.
_refresh_token_rotating(account, granted, access_token, expires_in, t) ==
    IF ~account.refresh_token \/ ~granted
    THEN [ok |-> FALSE, account |-> account]
    ELSE [ok |-> TRUE,
          account |-> [account EXCEPT !.access_token = access_token,
                                      !.expires_in = expires_in,
                                      !.timestamp = t,
                                      !.refresh_token = FALSE]]
_refresh_token(account, granted, access_token, expires_in, t) ==
    IF ~account.refresh_token
    THEN [ok |-> FALSE, account |-> account]
    ELSE IF ~granted
         THEN [ok |-> FALSE, account |-> account]
         ELSE [ok |-> TRUE,
               account |-> [account EXCEPT !.access_token = access_token,
                                           !.expires_in = expires_in,
                                           !.timestamp = t]]

\* The branch taken when the refresh fails: the account list is left as it
\* is and the loop continues.
on_refresh_failed_disable(accounts, index) == [accounts EXCEPT ![index + 1].disabled = TRUE]
on_refresh_failed(accounts, index) == accounts

\* The loop of get_token() from iteration i on.  accounts is the list read
\* from the file, cursor is self.current_token_index.  The result names the
\* returned index (NoIndex for None), the list as written back (wrote), the
\* new cursor, and the indices whose refresh was attempted.
RECURSIVE scan(_, _, _, _, _, _, _, _)
scan(accounts, cursor, i, t, grants, access_token, expires_in, attempted) ==
    LET num_accounts == Len(accounts) IN
    IF i >= scan_range(num_accounts)
    THEN [index |-> NoIndex, accounts |-> accounts, cursor |-> cursor,
          wrote |-> FALSE, attempted |-> attempted]
    ELSE LET index == rotation_index(cursor, i, num_accounts)
             account == accounts[index + 1]
         IN  IF is_disabled(account)
             THEN scan(accounts, cursor, i + 1, t, grants, access_token, expires_in, attempted)
             ELSE IF is_expired(account, t)
                  THEN LET refreshed == _refresh_token(account, index \in grants,
                                                      access_token, expires_in, t)
                       IN  IF refreshed.ok
                           THEN [index |-> index,
                                 accounts |-> [accounts EXCEPT ![index + 1] = refreshed.account],
                                 cursor |-> advance(index, num_accounts),
                                 wrote |-> TRUE,
                                 attempted |-> attempted \cup {index}]
                           ELSE scan(on_refresh_failed(accounts, index), cursor, i + 1, t,
                                     grants, access_token, expires_in,
                                     attempted \cup {index})
                  ELSE [index |-> index, accounts |-> accounts,
                        cursor |-> advance(index, num_accounts),
                        wrote |-> FALSE, attempted |-> attempted]

\* get_token(): read the file; an empty list returns None at once.
get_token(accounts, cursor, t, grants, access_token, expires_in) ==
    IF accounts = <<>>
    THEN [index |-> NoIndex, accounts |-> accounts, cursor |-> cursor,
          wrote |-> FALSE, attempted |-> {}]
    ELSE scan(accounts, cursor, 0, t, grants, access_token, expires_in, {})

\* The indices of accounts for which a refresh could be attempted at t.
RefreshCandidates(accounts, t) ==
    {i \in 0..(Len(accounts) - 1) :
        ~is_disabled(accounts[i + 1]) /\ is_expired(accounts[i + 1], t)}

\* Whether every account is enabled and unexpired at t.
AllValid(accounts, t) ==
    \A i \in 1..Len(accounts) : ~is_disabled(accounts[i]) /\ ~is_expired(accounts[i], t)

\* The last MaxRotationPool entries of a sequence with e appended.
Push(s, e) ==
    LET s2 == Append(s, e)
    IN  IF Len(s2) > MaxRotationPool
        THEN SubSeq(s2, Len(s2) - MaxRotationPool + 1, Len(s2))
        ELSE s2

NoOp == [op |-> "init", index |-> NoIndex, grants |-> {}, attempted |-> {},
         wrote |-> FALSE, retried |-> {}, access_token |-> FirstToken, expires_in |-> 0]

\* The indices whose refresh failed in the call that l records.
FailedIn(l) ==
    IF l.op = "get_token"
    THEN l.attempted \ (IF l.wrote THEN {l.index} ELSE {})
    ELSE {}

\* One call of TokenManager.get_token().  The token endpoint's answers are
\* the inputs: which refreshes it grants, and the token and lifetime it
\* answers with.  track says whether the call is added to streak.
GetTokenCall(track) ==
    \E grants \in SUBSET RefreshCandidates(file, now), access_token \in RefreshedTokens, expires_in \in ExpiresIn :
        LET r == get_token(file, current_token_index, now, grants, access_token, expires_in)
        IN  \* the endpoint's answer is an input only when a refresh succeeds
            /\ (~r.wrote) => (access_token = "at1" /\ expires_in = 59)
            /\ file' = r.accounts
            /\ current_token_index' = r.cursor
            /\ last' = [op |-> "get_token", index |-> r.index, grants |-> grants,
                        attempted |-> r.attempted, wrote |-> r.wrote,
                        retried |-> r.attempted \cap FailedIn(last),
                        access_token |-> access_token, expires_in |-> expires_in]
            /\ streak' = IF track
                         THEN Push(streak, [cursor |-> current_token_index,
                                            index |-> r.index,
                                            valid |-> AllValid(file, now)])
                         ELSE streak
            /\ now' = now
            /\ UNCHANGED <<streamVars, xlateVars, srvVars, concVars>>

GetToken == GetTokenCall(FALSE)

GetTokenTracked == GetTokenCall(TRUE)

\* oauth_client.save_token(): the consent flow appends one record.
SaveToken ==
    \E expires_in \in ExpiresIn, refresh_token \in BOOLEAN :
        /\ Len(file) < MaxPool
        /\ file' = Append(file, [access_token |-> FirstToken, refresh_token |-> refresh_token,
                                 expires_in |-> expires_in, timestamp |-> now,
                                 disabled |-> FALSE])
        /\ last' = [NoOp EXCEPT !.op = "save_token"]
        /\ UNCHANGED <<current_token_index, now, streak, streamVars, xlateVars, srvVars, concVars>>

\* Someone edits accounts.json by hand and sets or clears "disabled".
SetDisabled ==
    \E i \in 1..Len(file), d \in BOOLEAN :
        /\ file[i].disabled # d
        /\ file' = [file EXCEPT ![i].disabled = d]
        /\ last' = [NoOp EXCEPT !.op = "set_disabled"]
        /\ UNCHANGED <<current_token_index, now, streak, streamVars, xlateVars, srvVars, concVars>>

\* A second passes.
Tick ==
    /\ now < MaxTime
    /\ now' = now + 1
    /\ last' = [NoOp EXCEPT !.op = "tick"]
    /\ UNCHANGED <<file, current_token_index, streak, streamVars, xlateVars, srvVars, concVars>>

\* TokenManager.__init__ with no accounts.json yet.
TokInit ==
    /\ file = <<>>
    /\ current_token_index = 0
    /\ now = 0
    /\ last = NoOp
    /\ streak = <<>>

\* The records accounts.json may hold when the rotation is observed:
\* enabled ones, expired or not.  (Pools with disabled records are those of
\* Spec, where SetDisabled acts.)
InitAccounts ==
    [access_token : {FirstToken}, refresh_token : {TRUE}, expires_in : ExpiresIn,
     timestamp : {0}, disabled : {FALSE}]

\* The pools of 1..n records of InitAccounts.
Pools(n) == UNION {[1..k -> InitAccounts] : k \in 1..n}

\* A running proxy: some pool on disk, the cursor anywhere in it.
RotationInit ==
    /\ file \in Pools(MaxRotationPool)
    /\ current_token_index \in 0..(Len(file) - 1)
    /\ now = 0
    /\ last = NoOp
    /\ streak = <<>>

-----------------------------------------------------------------------------
\* api_client.py: ApiClient.generate_assistant_response

\* The contents of the span markers.
THINK_OPEN == "<think>\n"
THINK_CLOSE == "\n</think>\n"

\* json.dumps(fc.get('args', {}))
json_dumps(args) == <<"json", args>>

\* Content parts of an upstream document.
ThoughtA == [kind |-> "thought", text |-> "a"]
TextB == [kind |-> "text", text |-> "b"]
CallF == [kind |-> "functionCall", id |-> "idf", name |-> "f", args |-> "argsf"]
CallG == [kind |-> "functionCall", id |-> "idg", name |-> "g", args |-> "argsg"]

\* The part lists a document may carry.
PartLists ==
    {<<>>, <<ThoughtA>>, <<TextB>>, <<CallF>>, <<CallG>>,
     <<ThoughtA, CallF>>, <<ThoughtA, TextB>>, <<CallF, CallG>>}

\* The lines of an upstream response: a line without the "data: " prefix, a
\* payload that is not JSON, a document with an empty candidate list, and
\* documents with parts, with or without a finishReason.
Lines ==
    {[kind |-> k, parts |-> <<>>, finish |-> FALSE] : k \in {"other", "malformed", "nocandidates"}}
    \cup [kind : {"doc"}, parts : PartLists, finish : BOOLEAN]

\* The local state of the generator before the first line.
Started == [st |-> "streaming", thinking_started |-> FALSE, tool_calls |-> <<>>, events |-> <<>>]

\* yield chunk
yield(s, chunk) == [s EXCEPT !.events = Append(@, chunk)]

thinking(content) == [type |-> "thinking", content |-> content]
text(content) == [type |-> "text", content |-> content]
tool_calls_chunk(calls) == [type |-> "tool_calls", tool_calls |-> calls]

\* The entry appended to tool_calls for a functionCall part.
tool_call(s, fc) ==
    [s EXCEPT !.tool_calls =
        Append(@, [id |-> fc.id, type |-> "function",
                   function |-> [name |-> fc.name, arguments |-> json_dumps(fc.args)]])]

\* if part.get('thought') is True: open the span if need be, yield the text.
thought_part_reopen(s, part) == yield(yield(s, thinking(THINK_OPEN)), thinking(part.text))
thought_part(s, part) ==
    LET s1 == IF ~s.thinking_started
              THEN [yield(s, thinking(THINK_OPEN)) EXCEPT !.thinking_started = TRUE]
              ELSE s
    IN  yield(s1, thinking(part.text))

\* elif 'text' in part: close an open span, yield the text.
text_part_no_close(s, part) == yield(s, text(part.text))
text_part(s, part) ==
    LET s1 == IF s.thinking_started
              THEN [yield(s, thinking(THINK_CLOSE)) EXCEPT !.thinking_started = FALSE]
              ELSE s
    IN  yield(s1, text(part.text))

\* One iteration of "for part in parts".
handle_part(s, part) ==
    IF part.kind = "thought" THEN thought_part(s, part)
    ELSE IF part.kind = "text" THEN text_part(s, part)
    ELSE IF part.kind = "functionCall" THEN tool_call(s, part)
    ELSE s

\* for part in parts
RECURSIVE handle_parts(_, _)
handle_parts(s, parts) ==
    IF parts = <<>> THEN s ELSE handle_parts(handle_part(s, Head(parts)), Tail(parts))

\* if finish_reason and tool_calls: close an open span, yield the batch,
\* start a new one.
flush_keep(s, finish) == IF finish /\ s.tool_calls # <<>> THEN yield(s, tool_calls_chunk(s.tool_calls)) ELSE s
flush(s, finish) ==
    IF finish /\ s.tool_calls # <<>>
    THEN LET s1 == IF s.thinking_started
                   THEN [yield(s, thinking(THINK_CLOSE)) EXCEPT !.thinking_started = FALSE]
                   ELSE s
         IN  [yield(s1, tool_calls_chunk(s1.tool_calls)) EXCEPT !.tool_calls = <<>>]
    ELSE s

\* except json.JSONDecodeError: log and continue.
on_parse_error_reset(s) == [s EXCEPT !.thinking_started = FALSE, !.tool_calls = <<>>]
on_parse_error(s) == s

\* The body of "async for line in response.aiter_lines()" for one line.
\* candidates[0] of an empty candidate list raises IndexError, which no
\* handler of the generator catches.
process_line(s, line) ==
    IF line.kind = "other" THEN s
    ELSE IF line.kind = "malformed" THEN on_parse_error(s)
    ELSE IF line.kind = "nocandidates" THEN [s EXCEPT !.st = "failed"]
    ELSE flush(handle_parts(s, line.parts), line.finish)

\* The generator's state after the lines ls, read from state s.
RECURSIVE process_lines(_, _)
process_lines(s, ls) ==
    IF ls = <<>> \/ s.st # "streaming" THEN s
    ELSE process_lines(process_line(s, Head(ls)), Tail(ls))

\* The generator's local state.
Generator ==
    [st |-> st, thinking_started |-> thinking_started, tool_calls |-> tool_calls, events |-> events]

\* The generator's local state becomes s.
Resume(s) ==
    /\ st' = s.st
    /\ thinking_started' = s.thinking_started
    /\ tool_calls' = s.tool_calls
    /\ events' = s.events

\* The response delivers one more line and the generator handles it.
ReadLine ==
    \E line \in Lines :
        /\ st = "streaming"
        /\ Len(lines) < MaxLines
        /\ lines' = Append(lines, line)
        /\ Resume(process_line(Generator, line))
        /\ UNCHANGED <<tokVars, xlateVars, srvVars, concVars>>

\* After the "async for" loop the generator has no statement left: what
\* tool_calls still holds is yielded by nothing.
on_stream_end_flush(s) == [flush(s, TRUE) EXCEPT !.st = "ended"]
on_stream_end(s) == [s EXCEPT !.st = "ended"]

\* The response ends: the "async for" loop is left and the generator returns.
EndOfStream ==
    /\ st = "streaming"
    /\ Resume(on_stream_end(Generator))
    /\ UNCHANGED <<lines, tokVars, xlateVars, srvVars, concVars>>

\* The transport fails while the response is read: httpx.RequestError is
\* re-raised as ConnectionError.
TransportError ==
    /\ st = "streaming"
    /\ st' = "failed"
    /\ UNCHANGED <<thinking_started, tool_calls, events, lines, tokVars, xlateVars, srvVars, concVars>>

\* The generator after a 200 response, before the first line.
StreamIdle ==
    /\ st = Started.st
    /\ thinking_started = Started.thinking_started
    /\ tool_calls = Started.tool_calls
    /\ events = Started.events
    /\ lines = <<>>

-----------------------------------------------------------------------------
\* utils.py: openai_message_to_antigravity

\* content of an assistant message: absent (None, written "<None>"), blank,
\* or text.
NoContent == "<None>"
ContentStrings == {"  ", "hi"}

\* arguments strings of a tool call that json.loads parses; any other
\* string, "oops" here, it rejects.
ValidJson == {"{x:1}"}

\* tool_calls entries of an assistant message.
ToolCall(id, name, arguments) == [id |-> id, function |-> [name |-> name, arguments |-> arguments]]
Call1 == ToolCall("c1", "lookup", "{x:1}")
Call2 == ToolCall("c2", "search", "oops")
Call3 == ToolCall("c3", "lookup", "{x:1}")
Call4 == ToolCall("c1", "search", "{x:1}")

\* content of a user message: a string, or a list of typed segments with a
\* text, an image data URI and a URL that is no data URI.
UserContents ==
    {[text |-> "q", urls |-> <<>>],
     [text |-> "see", urls |-> <<[data |-> TRUE, format |-> "png", payload |-> "AAAA"],
                                 [data |-> FALSE, format |-> "", payload |-> ""]>>]}

\* The messages of a conversation.
Messages ==
    [role : {"user", "system"}, content : UserContents]
    \cup [role : {"assistant"}, content : {NoContent} \cup ContentStrings,
          tool_calls : {<<>>, <<Call1>>, <<Call2, Call3>>, <<Call4>>}]
    \cup [role : {"tool"}, tool_call_id : {"c1", "c3", "c9"}, content : {"r"}]

\* json.loads(tool_call['function']['arguments']), with the fallback of the
\* except branch.
parse_arguments(arguments) ==
    IF arguments \in ValidJson THEN [parsed |-> arguments] ELSE [query |-> arguments]

\* extract_images_from_content: the text and one inlineData per data URI.
RECURSIVE extract_images(_)
extract_images(urls) ==
    IF urls = <<>> THEN <<>>
    ELSE (IF Head(urls).data
          THEN <<[inlineData |-> [mimeType |-> <<"image/", Head(urls).format>>,
                                  data |-> Head(urls).payload]]>>
          ELSE <<>>)
         \o extract_images(Tail(urls))

extract_images_from_content(content) ==
    [text |-> content.text, images |-> extract_images(content.urls)]

\* handle_user_message
handle_user_message_merge(extracted, msgs) ==
    IF msgs # <<>> /\ msgs[Len(msgs)].role = "user"
    THEN [msgs EXCEPT ![Len(msgs)].parts = @ \o <<[text |-> extracted.text]>> \o extracted.images]
    ELSE Append(msgs, [role |-> "user", parts |-> <<[text |-> extracted.text]>> \o extracted.images])
handle_user_message(extracted, msgs) ==
    Append(msgs, [role |-> "user", parts |-> <<[text |-> extracted.text]>> \o extracted.images])

\* has_content = bool(message.get('content') and message['content'].strip())
has_content(message) == message.content # NoContent /\ message.content # "  "

\* The functionCall parts built from message['tool_calls'].
RECURSIVE antigravity_tools(_)
antigravity_tools(calls) ==
    IF calls = <<>> THEN <<>>
    ELSE <<[functionCall |-> [id |-> Head(calls).id,
                              name |-> Head(calls).function.name,
                              args |-> parse_arguments(Head(calls).function.arguments)]]>>
         \o antigravity_tools(Tail(calls))

\* The merge branch of handle_assistant_message:
\* last_message['parts'].extend(antigravity_tools)
merge_tools_new_turn(msgs, tools) == Append(msgs, [role |-> "model", parts |-> tools])
merge_tools_replace(msgs, tools) == [msgs EXCEPT ![Len(msgs)].parts = tools]
merge_tools(msgs, tools) == [msgs EXCEPT ![Len(msgs)].parts = @ \o tools]

\* handle_assistant_message
handle_assistant_message(message, msgs) ==
    LET has_tool_calls == message.tool_calls # <<>>
        tools == antigravity_tools(message.tool_calls)
    IN  IF msgs # <<>> /\ msgs[Len(msgs)].role = "model" /\ has_tool_calls /\ ~has_content(message)
        THEN merge_tools(msgs, tools)
        ELSE LET parts == (IF has_content(message) THEN <<[text |-> message.content]>> ELSE <<>>)
                          \o tools
             IN  IF parts # <<>> THEN Append(msgs, [role |-> "model", parts |-> parts]) ELSE msgs

\* The name of the first functionCall part of parts whose id is id, "" when
\* there is none.
RECURSIVE name_in_parts(_, _)
name_in_parts(parts, id) ==
    IF parts = <<>> THEN ""
    ELSE IF "functionCall" \in DOMAIN Head(parts) /\ Head(parts).functionCall.id = id
         THEN Head(parts).functionCall.name
         ELSE name_in_parts(Tail(parts), id)

\* The backward scan of handle_tool_call from turn i down to the first.
find_function_name_oldest(msgs, i, id) ==
    LET matching == {j \in 1..i : msgs[j].role = "model" /\ name_in_parts(msgs[j].parts, id) # ""}
    IN  IF matching = {} THEN ""
        ELSE name_in_parts(msgs[CHOOSE j \in matching : \A m \in matching : j <= m].parts, id)
RECURSIVE find_function_name(_, _, _)
find_function_name(msgs, i, id) ==
    IF i < 1 THEN ""
    ELSE LET found == IF msgs[i].role = "model" THEN name_in_parts(msgs[i].parts, id) ELSE ""
         IN  IF found # "" THEN found ELSE find_function_name(msgs, i - 1, id)

\* The test of handle_tool_call on the last turn: a user turn with a
\* functionResponse among its parts.
is_tool_response_turn_any_user(last_message) == last_message.role = "user"
is_tool_response_turn(last_message) ==
    /\ last_message.role = "user"
    /\ \E k \in 1..Len(last_message.parts) : "functionResponse" \in DOMAIN last_message.parts[k]

\* handle_tool_call
handle_tool_call(message, msgs) ==
    LET function_response ==
            [functionResponse |-> [id |-> message.tool_call_id,
                                   name |-> find_function_name(msgs, Len(msgs), message.tool_call_id),
                                   response |-> [output |-> message.content]]]
    IN  IF msgs # <<>> /\ is_tool_response_turn(msgs[Len(msgs)])
        THEN [msgs EXCEPT ![Len(msgs)].parts = Append(@, function_response)]
        ELSE Append(msgs, [role |-> "user", parts |-> <<function_response>>])

\* The body of the loop of openai_message_to_antigravity for one message.
translate_message(message, msgs) ==
    IF message.role \in {"user", "system"}
    THEN handle_user_message(extract_images_from_content(message.content), msgs)
    ELSE IF message.role = "assistant" THEN handle_assistant_message(message, msgs)
    ELSE IF message.role = "tool" THEN handle_tool_call(message, msgs)
    ELSE msgs

\* openai_message_to_antigravity
RECURSIVE translate_from(_, _)
translate_from(messages, msgs) ==
    IF messages = <<>> THEN msgs
    ELSE translate_from(Tail(messages), translate_message(Head(messages), msgs))

openai_message_to_antigravity(messages) == translate_from(messages, <<>>)

\* The loop takes the next message of the conversation.
TranslateMessage ==
    \E message \in Messages :
        /\ Len(openai_messages) < MaxMsgs
        /\ openai_messages' = Append(openai_messages, message)
        /\ antigravity_messages' = translate_message(message, antigravity_messages)
        /\ UNCHANGED <<tokVars, streamVars, srvVars, concVars>>

\* openai_message_to_antigravity before the first message.
XlateIdle ==
    /\ openai_messages = <<>>
    /\ antigravity_messages = <<>>

TokIdle == TokInit

-----------------------------------------------------------------------------
\* server.py: stream_chat_generator and create_chat_completion, with
\* utils.generate_request_body and the head of generate_assistant_response

\* Lines of the upstream response while a request is served.
ServerLines ==
    {[kind |-> "malformed"], [kind |-> "nocandidates"]}
    \cup [kind : {"doc"},
          parts : {<<ThoughtA, TextB>>, <<ThoughtA, TextB, CallF>>, <<TextB>>, <<CallF>>, <<CallG>>},
          finish : BOOLEAN]

\* request.messages: ChatMessage objects, which keep role and content only.
Conversations ==
    {<<[role |-> "user", content |-> "q"]>>,
     <<[role |-> "user", content |-> "q"], [role |-> "assistant", content |-> "hi"]>>}

\* accounts.json when a request arrives: no file, a valid credential, an
\* expired one that can be refreshed, an expired one that cannot, and two
\* valid credentials.
ServerPools ==
    LET account(r, e) == [access_token |-> FirstToken, refresh_token |-> r, expires_in |-> e,
                          timestamp |-> 0, disabled |-> FALSE]
    IN  {<<>>}
        \cup {<<account(r, e)>> : r \in BOOLEAN, e \in ExpiresIn}
        \cup {<<account(TRUE, 61), account(TRUE, 61)>>}

\* What the upstream answers to the generation request: a status code, or
\* no answer at all (httpx.RequestError).
Answers == {"200", "403", "500", "RequestError"}

\* The exceptions the handlers catch, by what str(e) starts with.
NoTokenError == "No available token"
NotSubscriptable == "'ChatMessage' object is not subscriptable"
PermissionDenied == "Account lacks permission"
RequestFailed == "API request failed"
RequestError == "An error occurred during the API request"
IndexOutOfRange == "list index out of range"

\* generate_request_id(): the braces of the f-string are doubled, so the
\* text between them is literal and uuid4, the value uuid.uuid4().hex would
\* have, is not evaluated.
generate_request_id(uuid4) == "req_{uuid.uuid4().hex}"

\* if response.status_code != 200: PermissionError for 403, ConnectionError
\* for any other status.
rejection_generic(status_code) == RequestFailed
rejection(status_code) == IF status_code = "403" THEN PermissionDenied ELSE RequestFailed

\* if not token: raise ConnectionError(...)
no_token_never(r) == FALSE
no_token(r) == r.index = NoIndex

\* handle_assistant_message evaluates message['content'] when
\* message.get('content') is true; ChatMessage defines get() and no
\* __getitem__, so the subscript raises TypeError.
translation_raises(messages) ==
    \E k \in 1..Len(messages) :
        messages[k].role = "assistant" /\ messages[k].content \notin {NoContent, ""}

\* What one call of get_token() can do to the pool and return, over the
\* answers of the token endpoint.
Acquisitions ==
    {get_token(file, current_token_index, now, grants, access_token, expires_in) :
        grants \in SUBSET RefreshCandidates(file, now),
        access_token \in RefreshedTokens, expires_in \in ExpiresIn}

\* The handler calls get_token() with outcome r.
Acquire(r) ==
    /\ file' = r.accounts
    /\ current_token_index' = r.cursor
    /\ acquired' = Append(acquired, r.index)
    /\ UNCHANGED <<now, last, streak>>

\* The handler's local variables and what it has produced.
Handler ==
    [out |-> out, has_tool_call |-> has_tool_call, full_content |-> full_content,
     tool_calls |-> kept_tool_calls, result |-> result]

\* The handler's local variables become h.
Proceed(h) ==
    /\ out' = h.out
    /\ has_tool_call' = h.has_tool_call
    /\ full_content' = h.full_content
    /\ kept_tool_calls' = h.tool_calls
    /\ result' = h.result

\* No response yet.
NoResult == [status_code |-> 0]

\* The locals on entry: has_tool_call = False; full_content = "";
\* tool_calls = [].  A string of the response is written as the tuple of
\* the pieces it is concatenated from.
Entered ==
    [out |-> <<>>, has_tool_call |-> FALSE, full_content |-> <<>>, tool_calls |-> <<>>,
     result |-> NoResult]

\* The chunks of the streamed response, by their choices[0]: the keys of
\* delta and finish_reason.
content_chunk(content) == [content |-> <<content>>, finish_reason |-> "null"]
tool_calls_delta(calls) == [tool_calls |-> calls, finish_reason |-> "null"]
final_chunk(reason) == [finish_reason |-> reason]
error_chunk(e) == [content |-> <<"Error: ", e>>, finish_reason |-> "error"]
DONE == [data |-> "[DONE]"]

\* finish_reason = "tool_calls" if has_tool_call else "stop", and in
\* create_chat_completion "tool_calls" if tool_calls else "stop".
finish_reason_stop(seen) == "stop"
finish_reason(seen) == IF seen THEN "tool_calls" ELSE "stop"

\* The body of "async for chunk" in stream_chat_generator.
stream_chunk(h, chunk) ==
    IF chunk.type = "tool_calls"
    THEN [h EXCEPT !.has_tool_call = TRUE, !.out = Append(@, tool_calls_delta(chunk.tool_calls))]
    ELSE [h EXCEPT !.out = Append(@, content_chunk(chunk.content))]

\* After the loop of stream_chat_generator: the final chunk, then [DONE].
stream_end(h) ==
    [h EXCEPT !.out = @ \o <<final_chunk(finish_reason(h.has_tool_call)), DONE>>]

\* except Exception in stream_chat_generator: the error chunk, then [DONE].
stream_except_final(h, e) == [stream_end(h) EXCEPT !.out = @ \o <<error_chunk(e), DONE>>]
stream_except(h, e) == [h EXCEPT !.out = @ \o <<error_chunk(e), DONE>>]

\* tool_calls = chunk['tool_calls']
keep_batch_extend(kept, batch) == kept \o batch
keep_batch(kept, batch) == batch

\* The body of "async for chunk" in create_chat_completion.
buffer_chunk(h, chunk) ==
    IF chunk.type = "tool_calls"
    THEN [h EXCEPT !.tool_calls = keep_batch(@, chunk.tool_calls)]
    ELSE IF chunk.type = "text"
         THEN [h EXCEPT !.full_content = @ \o <<chunk.content>>]
         ELSE h

\* After the loop of create_chat_completion: the message returned.
buffer_end(h) ==
    LET message == IF h.tool_calls # <<>>
                   THEN [role |-> "assistant", content |-> h.full_content,
                         tool_calls |-> h.tool_calls]
                   ELSE [role |-> "assistant", content |-> h.full_content]
    IN  [h EXCEPT !.result = [status_code |-> 200, message |-> message,
                              finish_reason |-> finish_reason(h.tool_calls # <<>>)]]

\* except Exception in create_chat_completion: HTTPException(500).
buffer_except(h, e) == [h EXCEPT !.result = [status_code |-> 500, detail |-> e]]

\* The handler takes the chunks the generator yields, one by one.
RECURSIVE consume(_, _, _)
consume(h, chunks, streaming) ==
    IF chunks = <<>> THEN h
    ELSE consume(IF streaming THEN stream_chunk(h, Head(chunks)) ELSE buffer_chunk(h, Head(chunks)),
                 Tail(chunks), streaming)

\* The handler's exception branch and its normal end.
on_exception(h, e, streaming) == IF streaming THEN stream_except(h, e) ELSE buffer_except(h, e)
on_end(h, streaming) == IF streaming THEN stream_end(h) ELSE buffer_end(h)

\* An exception e reaches the handler.
Raise(e) ==
    /\ Proceed(on_exception(Handler, e, stream))
    /\ pc' = "done"

\* POST /v1/chat/completions arrives and its handler is entered.
Accept ==
    \E streaming \in BOOLEAN, messages \in Conversations :
        /\ pc \in {"idle", "done"}
        /\ served < MaxRequests
        /\ pc' = "accepted"
        /\ stream' = streaming
        /\ request_messages' = messages
        /\ Proceed(Entered)
        /\ posts' = 0
        /\ acquired' = <<>>
        /\ served' = served + 1
        /\ Resume(Started)
        /\ lines' = <<>>
        /\ UNCHANGED <<tokVars, xlateVars, request_ids, upstream_calls, concVars>>

\* generate_request_body(): get_token(), then the body with its requestId
\* and the translated messages.
BuildRequestBody ==
    \E r \in Acquisitions :
        /\ pc = "accepted"
        /\ Acquire(r)
        /\ IF no_token(r)
           THEN Raise(NoTokenError) /\ UNCHANGED request_ids
           ELSE IF translation_raises(request_messages)
                THEN Raise(NotSubscriptable) /\ UNCHANGED request_ids
                ELSE /\ request_ids' = Append(request_ids, generate_request_id(served))
                     /\ pc' = "built"
                     /\ Proceed(Handler)
        /\ UNCHANGED <<stream, request_messages, posts, served, upstream_calls, streamVars,
                       xlateVars, concVars>>

\* The head of generate_assistant_response(): get_token() again, then the
\* POST and the test of its status code.
OpenUpstream ==
    \E r \in Acquisitions, answer \in Answers :
        /\ pc = "built"
        /\ Acquire(r)
        /\ IF no_token(r)
           THEN Raise(NoTokenError) /\ UNCHANGED <<posts, upstream_calls>>
           ELSE /\ posts' = posts + 1
                /\ upstream_calls' = Append(upstream_calls, [index |-> r.index, answer |-> answer])
                /\ IF answer = "200" THEN pc' = "reading" /\ Proceed(Handler)
                   ELSE IF answer = "RequestError" THEN Raise(RequestError)
                   ELSE Raise(rejection(answer))
        /\ UNCHANGED <<stream, request_messages, request_ids, served, streamVars, xlateVars,
                       concVars>>

\* The response delivers a line; the generator handles it and the handler
\* takes what it yields.  An exception of the generator reaches the handler.
ServeLine ==
    \E line \in ServerLines :
        LET s == process_line(Generator, line)
            h == consume(Handler, SubSeq(s.events, Len(events) + 1, Len(s.events)), stream)
        IN  /\ pc = "reading"
            /\ Len(lines) < MaxServerLines
            /\ lines' = Append(lines, line)
            /\ Resume(s)
            /\ IF s.st = "failed"
               THEN Proceed(on_exception(h, IndexOutOfRange, stream)) /\ pc' = "done"
               ELSE Proceed(h) /\ pc' = "reading"
            /\ UNCHANGED <<tokVars, xlateVars, stream, request_messages, posts, acquired,
                           request_ids, served, upstream_calls, concVars>>

\* The response ends and the handler finishes.
ServeEnd ==
    /\ pc = "reading"
    /\ Resume(on_stream_end(Generator))
    /\ Proceed(on_end(Handler, stream))
    /\ pc' = "done"
    /\ UNCHANGED <<lines, tokVars, xlateVars, stream, request_messages, posts, acquired,
                   request_ids, served, upstream_calls, concVars>>

\* The transport fails while the response is read.
ServeTransportError ==
    /\ pc = "reading"
    /\ st' = "failed"
    /\ Raise(RequestError)
    /\ UNCHANGED <<thinking_started, tool_calls, events, lines, tokVars, xlateVars, stream,
                   request_messages, posts, acquired, request_ids, served, upstream_calls,
                   concVars>>

\* The server with no request in hand.
SrvIdle ==
    /\ pc = "idle"
    /\ stream = FALSE
    /\ request_messages = <<>>
    /\ out = Entered.out
    /\ has_tool_call = Entered.has_tool_call
    /\ full_content = Entered.full_content
    /\ kept_tool_calls = Entered.tool_calls
    /\ result = Entered.result
    /\ posts = 0
    /\ acquired = <<>>
    /\ request_ids = <<>>
    /\ served = 0
    /\ upstream_calls = <<>>

\* A running proxy with some accounts.json on disk.
ServerPoolInit ==
    /\ file \in ServerPools
    /\ current_token_index = 0
    /\ now = 0
    /\ last = NoOp
    /\ streak = <<>>


-----------------------------------------------------------------------------
\* token_manager.py and oauth_client.py step by step: the requests of the
\* server are coroutines of one event loop, save_token() runs in a process
\* of its own, and all of them read and write accounts.json.

\* The coroutines that serve requests.
Requests == {1, 2}

\* The value of running when no coroutine is running.
NoRequest == 0

\* accounts.json when the requests arrive: expired credentials that can be
\* refreshed, alone or beside a valid one.
ConcurrentPools ==
    LET account(e) == [access_token |-> FirstToken, refresh_token |-> TRUE, expires_in |-> e,
                       timestamp |-> 0, disabled |-> FALSE]
    IN  {<<account(59)>>, <<account(59), account(61)>>, <<account(59), account(59)>>}

\* get_token() before it is called.
NotCalled ==
    [pc |-> "idle", accounts |-> <<>>, i |-> 0, index |-> NoIndex, read_at |-> 0, calls |-> 0]

\* get_token() after it returned to a coroutine that has called it calls
\* times: its locals are gone.
Returned(calls) == [NotCalled EXCEPT !.pc = "returned", !.calls = calls]

\* save_token() before it is called.
NotSaving == [pc |-> "idle", accounts |-> <<>>]

\* No read of accounts.json observed yet.
NoRead == [by |-> "nobody", value |-> <<>>, during |-> FALSE, old |-> <<>>, new |-> <<>>]

\* _read_accounts(), and the read of save_token(): json.load of the file;
\* a file that open(..., 'w') has emptied raises JSONDecodeError and the
\* result is [].
_read_accounts(disk) == disk

\* open(accounts_file, 'w') truncates the file; json.dump and the close of
\* the with block then put the text there.
open_w(disk) == <<>>

\* The persists between their open and their close, as the pools they write.
Writing ==
    {gt[r].accounts : r \in {q \in Requests : gt[q].pc = "writing"}}
    \cup (IF sv.pc = "writing" THEN {sv.accounts} ELSE {})

\* What a read by a process observes.
Observation(by) ==
    [by |-> by, value |-> _read_accounts(file), during |-> Writing # {},
     old |-> committed,
     new |-> IF Writing # {} THEN CHOOSE w \in Writing : TRUE ELSE committed]

\* requests.post() in _refresh_token blocks the thread: the coroutine keeps
\* the event loop while the refresh is in flight.
loop_during_refresh_released(r) == NoRequest
loop_during_refresh(r) == r

\* The loop of get_token() from iteration i up to the place where it
\* returns or POSTs a refresh.
RECURSIVE next_stop(_, _, _, _)
next_stop(accounts, cursor, i, t) ==
    IF i >= Len(accounts) THEN [kind |-> "none", i |-> i, index |-> NoIndex]
    ELSE LET index == rotation_index(cursor, i, Len(accounts))
             account == accounts[index + 1]
         IN  IF is_disabled(account) THEN next_stop(accounts, cursor, i + 1, t)
             ELSE IF ~is_expired(account, t) THEN [kind |-> "return", i |-> i, index |-> index]
             ELSE IF ~account.refresh_token THEN next_stop(accounts, cursor, i + 1, t)
             ELSE [kind |-> "refresh", i |-> i, index |-> index]

\* The coroutine r runs the loop of get_token() from iteration i over the
\* list accounts it holds, as far as next_stop.
RunLoop(r, g, i) ==
    LET stop == next_stop(g.accounts, current_token_index, i, now)
    IN  IF stop.kind = "refresh"
        THEN /\ gt' = [gt EXCEPT ![r] = [g EXCEPT !.pc = "refreshing", !.i = stop.i,
                                                  !.index = stop.index]]
             /\ running' = loop_during_refresh(r)
             /\ UNCHANGED current_token_index
        ELSE /\ gt' = [gt EXCEPT ![r] = Returned(g.calls)]
             /\ running' = NoRequest
             /\ current_token_index' = IF stop.kind = "return"
                                       THEN advance(stop.index, Len(g.accounts))
                                       ELSE current_token_index

\* get_token() is called in coroutine r: it reads the file and runs its loop.
GtRead(r) ==
    LET g == [gt[r] EXCEPT !.accounts = _read_accounts(file), !.read_at = writes,
                           !.calls = @ + 1]
    IN  /\ gt[r].pc \in {"idle", "returned"}
        /\ gt[r].calls < MaxCalls
        /\ running = NoRequest
        /\ observed' = Observation("get_token")
        /\ RunLoop(r, g, 0)
        /\ UNCHANGED <<file, sv, writes, committed>>

\* The token endpoint answers the refresh of coroutine r.
GtRefreshed(r) ==
    \E granted \in BOOLEAN, expires_in \in ExpiresIn :
        LET g == gt[r]
            refreshed == _refresh_token(g.accounts[g.index + 1], granted, "at1", expires_in, now)
        IN  /\ g.pc = "refreshing"
            /\ running \in {NoRequest, r}
            /\ (~granted) => expires_in = 59
            /\ IF refreshed.ok
               THEN /\ gt' = [gt EXCEPT ![r] = [g EXCEPT !.pc = "opening",
                                                         !.accounts[g.index + 1] = refreshed.account]]
                    /\ running' = r
                    /\ UNCHANGED current_token_index
               ELSE RunLoop(r, g, g.i + 1)
            /\ UNCHANGED <<file, sv, writes, committed, observed>>

\* _write_accounts() of coroutine r opens the file.
GtOpen(r) ==
    /\ gt[r].pc = "opening"
    /\ running = r
    /\ file' = open_w(file)
    /\ gt' = [gt EXCEPT ![r].pc = "writing"]
    /\ UNCHANGED <<current_token_index, running, sv, writes, committed, observed>>

\* _write_accounts() of coroutine r dumps the list and closes the file;
\* get_token() advances the cursor and returns.
GtClose(r) ==
    /\ gt[r].pc = "writing"
    /\ running = r
    /\ file' = gt[r].accounts
    /\ committed' = gt[r].accounts
    /\ writes' = writes + 1
    /\ current_token_index' = advance(gt[r].index, Len(gt[r].accounts))
    /\ gt' = [gt EXCEPT ![r] = Returned(gt[r].calls)]
    /\ running' = NoRequest
    /\ UNCHANGED <<sv, observed>>

GetTokenRead == \E r \in Requests : GtRead(r) /\ UNCHANGED <<now, last, streak, streamVars, xlateVars, srvVars>>

GetTokenRefreshed == \E r \in Requests : GtRefreshed(r) /\ UNCHANGED <<now, last, streak, streamVars, xlateVars, srvVars>>

GetTokenOpen == \E r \in Requests : GtOpen(r) /\ UNCHANGED <<now, last, streak, streamVars, xlateVars, srvVars>>

GetTokenClose == \E r \in Requests : GtClose(r) /\ UNCHANGED <<now, last, streak, streamVars, xlateVars, srvVars>>

\* The record save_token() builds from the answer of the token endpoint.
NewAccount ==
    [access_token |-> "at2", refresh_token |-> TRUE, expires_in |-> 61, timestamp |-> now,
     disabled |-> FALSE]

\* save_token() reads the file and appends the new record to the list.
SaveTokenRead ==
    /\ sv.pc = "idle"
    /\ observed' = Observation("save_token")
    /\ sv' = [pc |-> "opening", accounts |-> Append(_read_accounts(file), NewAccount)]
    /\ UNCHANGED <<file, current_token_index, running, gt, writes, committed>>
    /\ UNCHANGED <<now, last, streak, streamVars, xlateVars, srvVars>>

\* save_token() opens the file for writing.
SaveTokenOpen ==
    /\ sv.pc = "opening"
    /\ file' = open_w(file)
    /\ sv' = [sv EXCEPT !.pc = "writing"]
    /\ UNCHANGED <<current_token_index, running, gt, writes, committed, observed>>
    /\ UNCHANGED <<now, last, streak, streamVars, xlateVars, srvVars>>

\* save_token() dumps the list and closes the file.
SaveTokenClose ==
    /\ sv.pc = "writing"
    /\ file' = sv.accounts
    /\ committed' = sv.accounts
    /\ writes' = writes + 1
    /\ sv' = [NotSaving EXCEPT !.pc = "done"]
    /\ UNCHANGED <<current_token_index, running, gt, observed>>
    /\ UNCHANGED <<now, last, streak, streamVars, xlateVars, srvVars>>

\* No coroutine in get_token(), no save_token() under way.
ConcIdle ==
    /\ running = NoRequest
    /\ gt = [r \in Requests |-> NotCalled]
    /\ sv = NotSaving
    /\ writes = 0
    /\ committed = <<>>
    /\ observed = NoRead

\* A running proxy with credentials on disk, before the requests arrive.
ConcurrentInit ==
    /\ file \in ConcurrentPools
    /\ current_token_index = 0
    /\ now = 0
    /\ last = NoOp
    /\ streak = <<>>
    /\ running = NoRequest
    /\ gt = [r \in Requests |-> NotCalled]
    /\ sv = NotSaving
    /\ writes = 0
    /\ committed = file
    /\ observed = NoRead

Init == TokInit /\ StreamIdle /\ XlateIdle /\ SrvIdle /\ ConcIdle

Next == GetToken \/ SaveToken \/ SetDisabled \/ Tick

Spec == Init /\ [][Next]_vars

\* The reassembly of one upstream response.
InitStream == TokIdle /\ StreamIdle /\ XlateIdle /\ SrvIdle /\ ConcIdle

NextStream == ReadLine \/ EndOfStream \/ TransportError

SpecStream == InitStream /\ [][NextStream]_vars

\* The translation of one conversation.
InitTranslate == TokIdle /\ StreamIdle /\ XlateIdle /\ SrvIdle /\ ConcIdle

NextTranslate == TranslateMessage

SpecTranslate == InitTranslate /\ [][NextTranslate]_vars

\* The rotation observed over back-to-back calls of get_token().
InitRotation == RotationInit /\ StreamIdle /\ XlateIdle /\ SrvIdle /\ ConcIdle

NextRotation == GetTokenTracked

SpecRotation == InitRotation /\ [][NextRotation]_vars

\* The serving of chat completion requests, one after the other.
InitServer == ServerPoolInit /\ StreamIdle /\ XlateIdle /\ SrvIdle /\ ConcIdle

NextServer ==
    \/ Accept
    \/ BuildRequestBody
    \/ OpenUpstream
    \/ ServeLine
    \/ ServeEnd
    \/ ServeTransportError

SpecServer == InitServer /\ [][NextServer]_vars

\* The requests of the server taking credentials side by side.
InitRequests == ConcurrentInit /\ StreamIdle /\ XlateIdle /\ SrvIdle

NextRequests == GetTokenRead \/ GetTokenRefreshed \/ GetTokenOpen \/ GetTokenClose

SpecRequests == InitRequests /\ [][NextRequests]_vars

\* The server and the consent flow of oauth_client.py side by side.
InitPersist == ConcurrentInit /\ StreamIdle /\ XlateIdle /\ SrvIdle

NextPersist ==
    \/ GetTokenRead
    \/ GetTokenRefreshed
    \/ GetTokenOpen
    \/ GetTokenClose
    \/ SaveTokenRead
    \/ SaveTokenOpen
    \/ SaveTokenClose

SpecPersist == InitPersist /\ [][NextPersist]_vars

-----------------------------------------------------------------------------
\* Properties of the credential rotation.

\* Seconds of life a credential has left at t.
Remaining(account, t) == account.timestamp + account.expires_in - t

\* The place of index i in the rotation order that starts at cursor.
RotationPos(i, cursor, n) == (i - cursor) % n

\* A step of get_token(): the only steps that leave last.op = "get_token".
GetTokenStep == last'.op = "get_token"

\* In a step of get_token(): index i is enabled and the scan gets as far as i.
Reached(i) ==
    /\ ~file[i + 1].disabled
    /\ \/ last'.index = NoIndex
       \/ RotationPos(i, current_token_index, Len(file))
            <= RotationPos(last'.index, current_token_index, Len(file))

\* In a step of get_token(): credential i can be handed out, being enabled
\* and either unexpired or refreshable with the answers of this call.
Usable(i) ==
    /\ ~file[i + 1].disabled
    /\ \/ Remaining(file[i + 1], now) >= 60
       \/ file[i + 1].refresh_token /\ i \in last'.grants

\* C1: rotation fairness.  When the last N calls of get_token(), N the pool
\* size, each found every credential enabled and unexpired, they returned
\* the indices cursor, cursor+1, ... modulo N from the cursor of the first
\* of them, hence each credential exactly once.
C1_RotationFairness ==
    LET N == Len(file)
        first == Len(streak) - N
    IN  (/\ N >= 1
         /\ Len(streak) >= N
         /\ \A k \in 1..N : streak[first + k].valid)
        => /\ \A k \in 1..N :
                streak[first + k].index = (streak[first + 1].cursor + k - 1) % N
           /\ {streak[first + k].index : k \in 1..N} = 0..(N - 1)

\* C1 witness: three valid credentials were handed out in three calls that
\* started in the middle of the pool.
C1_Witness ==
    /\ Len(file) = 3
    /\ Len(streak) = 3
    /\ \A k \in 1..3 : streak[k].valid
    /\ streak[1].cursor = 1
    /\ streak[3].index = 0

\* C2: get_token() returns None exactly when the pool is empty or every
\* credential is disabled or expired with a failing refresh.
C2_NoneIffNothingUsable ==
    [][GetTokenStep =>
        (last'.index = NoIndex <=> \A i \in 0..(Len(file) - 1) : ~Usable(i))]_vars

\* C2 witness: a credential was returned in a call in which the refresh of
\* another credential failed.
C2_Witness ==
    /\ last.op = "get_token"
    /\ last.index # NoIndex
    /\ last.attempted \ {last.index} # {}

\* C3: refresh isolation.  In any call, a credential whose refresh fails
\* keeps its record, the pool keeps its length, and nothing is written
\* unless another refresh succeeds; the next enabled candidate in rotation
\* order is examined; and every enabled expired credential the scan reaches
\* has its refresh attempted, whatever happened to it in earlier calls.
C3_RefreshIsolation ==
    [][GetTokenStep =>
        LET n == Len(file)
            failedNow == last'.attempted \ (IF last'.wrote THEN {last'.index} ELSE {})
            pos(i) == RotationPos(i, current_token_index, n)
        IN  /\ Len(file') = n
            /\ \A i \in failedNow : file'[i + 1] = file[i + 1]
            /\ ~last'.wrote => file' = file
            /\ \A i \in failedNow : \A j \in 0..(n - 1) :
                  (/\ ~file[j + 1].disabled
                   /\ pos(j) > pos(i)
                   /\ \A k \in 0..(n - 1) :
                         (pos(i) < pos(k) /\ pos(k) < pos(j)) => file[k + 1].disabled)
                  => (last'.index = j \/ j \in last'.attempted)
            /\ \A i \in 0..(n - 1) :
                  (Reached(i) /\ Remaining(file[i + 1], now) < 60) => i \in last'.attempted
            /\ \A i \in FailedIn(last) :
                  Reached(i) => i \in last'.retried]_vars

\* C3 witness: a call attempted again the refresh that failed in the call
\* before it, and the credential is still in the pool and enabled.
C3_Witness ==
    /\ last.op = "get_token"
    /\ \E i \in last.retried : ~file[i + 1].disabled

\* C4: expiry buffer.  A credential the scan reaches has its refresh
\* attempted exactly when it has less than 60 seconds left; with 60 or
\* more it is returned as it is, without a refresh.
C4_ExpiryBuffer ==
    [][GetTokenStep =>
        \A i \in 0..(Len(file) - 1) :
            Reached(i) =>
                /\ (i \in last'.attempted) <=> (Remaining(file[i + 1], now) < 60)
                /\ (Remaining(file[i + 1], now) >= 60) =>
                      (last'.index = i /\ ~last'.wrote /\ file' = file)]_vars

\* C4 witness: in one call a credential with 59 seconds left had its refresh
\* attempted and a credential with 61 seconds left was returned unrefreshed.
C4_Witness ==
    /\ last.op = "get_token"
    /\ last.index # NoIndex
    /\ ~last.wrote
    /\ Remaining(file[last.index + 1], now) = 61
    /\ \E i \in last.attempted : Remaining(file[i + 1], now) = 59

\* C5: get_token() returns the first usable credential in rotation order
\* from the cursor and leaves the cursor one past it, modulo the pool size;
\* when it returns None the cursor is unchanged.
C5_FirstUsableAndCursor ==
    [][GetTokenStep =>
        LET n == Len(file)
            pos(i) == RotationPos(i, current_token_index, n)
            usable == {i \in 0..(n - 1) : Usable(i)}
        IN  IF usable = {}
            THEN last'.index = NoIndex /\ current_token_index' = current_token_index
            ELSE /\ last'.index \in usable
                 /\ \A j \in usable : pos(last'.index) <= pos(j)
                 /\ current_token_index' = (last'.index + 1) % n]_vars

\* C5 witness: the last credential of the pool was returned after a refresh
\* and the cursor wrapped to 0.
C5_Witness ==
    /\ last.op = "get_token"
    /\ Len(file) >= 2
    /\ last.index = Len(file) - 1
    /\ last.wrote
    /\ current_token_index = 0

\* C6: the cursor is an index of the pool whenever the pool is not empty.
C6_CursorInRange ==
    file # <<>> => current_token_index \in 0..(Len(file) - 1)

\* C6 witness: the pool grew by an append while the cursor was on its last
\* record.
C6_Witness ==
    /\ last.op = "save_token"
    /\ Len(file) >= 2
    /\ current_token_index = Len(file) - 2

\* C25: get_token() writes accounts.json only after a refresh succeeded;
\* the write keeps the number and the order of the records, changes only
\* access_token, expires_in and timestamp of the refreshed record, and
\* changes no record's disabled flag or refresh token.  A get_token() that
\* returns an unexpired credential or None leaves the file as it was.
C25_StoreFrame ==
    [][GetTokenStep
         => /\ Len(file') = Len(file)
            /\ \A k \in 1..Len(file) :
                   /\ file'[k].disabled = file[k].disabled
                   /\ file'[k].refresh_token = file[k].refresh_token
            /\ (file' # file) => last'.wrote
            /\ last'.wrote
                   => /\ last'.index \in 0..(Len(file) - 1)
                      /\ Remaining(file[last'.index + 1], now) < 60
                      /\ last'.index \in last'.grants
                      /\ \A k \in 1..Len(file) : k # last'.index + 1 => file'[k] = file[k]
            /\ (last'.index = NoIndex \/ Remaining(file[last'.index + 1], now) >= 60)
                   => file' = file]_vars

\* C25 witness: get_token() refreshed the second of two records and wrote
\* the file; the first record, expired and refused by the token endpoint,
\* is as it was.
C25_Witness ==
    /\ last.op = "get_token"
    /\ last.wrote
    /\ last.index = 1
    /\ last.attempted = {0, 1}
    /\ Len(file) = 2
    /\ file[1].access_token = FirstToken
    /\ file[2].access_token = "at1"
    /\ file[2].refresh_token

-----------------------------------------------------------------------------
\* Properties of the stream reassembly.

Doc(parts, finish) == [kind |-> "doc", parts |-> parts, finish |-> finish]
Malformed == [kind |-> "malformed", parts |-> <<>>, finish |-> FALSE]

\* The chunk a batch of the functionCall parts fcs is yielded as.
Batch(fcs) ==
    [type |-> "tool_calls",
     tool_calls |-> [k \in 1..Len(fcs) |->
                        [id |-> fcs[k].id, type |-> "function",
                         function |-> [name |-> fcs[k].name,
                                       arguments |-> <<"json", fcs[k].args>>]]]]

\* The functionCall parts of a part list, in order.
RECURSIVE CallsOf(_)
CallsOf(parts) ==
    IF parts = <<>> THEN <<>>
    ELSE (IF Head(parts).kind = "functionCall" THEN <<Head(parts)>> ELSE <<>>)
         \o CallsOf(Tail(parts))

\* The functionCall parts of all documents among the lines ls, in order.
RECURSIVE CallsOfLines(_)
CallsOfLines(ls) ==
    IF ls = <<>> THEN <<>>
    ELSE (IF Head(ls).kind = "doc" THEN CallsOf(Head(ls).parts) ELSE <<>>)
         \o CallsOfLines(Tail(ls))

\* The tool calls of all batches among the chunks es, in order.
RECURSIVE BatchedCalls(_)
BatchedCalls(es) ==
    IF es = <<>> THEN <<>>
    ELSE (IF Head(es).type = "tool_calls" THEN Head(es).tool_calls ELSE <<>>)
         \o BatchedCalls(Tail(es))

\* The lines ls without the payloads that are not JSON.
RECURSIVE WithoutMalformed(_)
WithoutMalformed(ls) ==
    IF ls = <<>> THEN <<>>
    ELSE (IF Head(ls).kind = "malformed" THEN <<>> ELSE <<Head(ls)>>)
         \o WithoutMalformed(Tail(ls))

\* Whether a thinking span is open after the chunks es: the last span marker
\* among them is a span-open.
OpenAfter(es) ==
    LET marks == SelectSeq(es, LAMBDA e : e.type = "thinking"
                                          /\ e.content \in {"<think>\n", "\n</think>\n"})
    IN  marks # <<>> /\ marks[Len(marks)].content = "<think>\n"

\* A step that reads one line.
ReadLineStep == Len(lines') = Len(lines) + 1

\* C7: the documents [thought "a"], [text "b"], [functionCall f, finish]
\* yield span-open, thinking "a", span-close, text "b" and the batch [f],
\* in this order and nothing else, also once the stream has ended.
C7_ReassemblyOrder ==
    lines = <<Doc(<<ThoughtA>>, FALSE), Doc(<<TextB>>, FALSE), Doc(<<CallF>>, TRUE)>>
    => events = <<[type |-> "thinking", content |-> "<think>\n"],
                  [type |-> "thinking", content |-> "a"],
                  [type |-> "thinking", content |-> "\n</think>\n"],
                  [type |-> "text", content |-> "b"],
                  Batch(<<CallF>>)>>

\* C7 witness: the three documents were read and the stream ended.
C7_Witness ==
    /\ lines = <<Doc(<<ThoughtA>>, FALSE), Doc(<<TextB>>, FALSE), Doc(<<CallF>>, TRUE)>>
    /\ st = "ended"

\* C8: tool-call batching.  Reading a line yields a batch exactly when the
\* line is a document with a finish signal and the pending calls, those of
\* this document included, are not empty; the batch is then the last chunk
\* yielded, holds the pending calls followed by the document's in arrival
\* order, comes with no thinking span open before it, and leaves nothing
\* pending.  Any other line yields no batch and the document's calls
\* join the pending ones.  Hence at any time the calls of the documents read
\* are the calls of the batches yielded followed by the pending ones.
C8_ToolCallBatching ==
    /\ [](BatchedCalls(events) \o tool_calls = Batch(CallsOfLines(lines)).tool_calls)
    /\ [][ReadLineStep =>
            LET line == lines'[Len(lines')]
                isDoc == line.kind = "doc"
                pending == tool_calls \o (IF isDoc THEN Batch(CallsOf(line.parts)).tool_calls ELSE <<>>)
                new == SubSeq(events', Len(events) + 1, Len(events'))
            IN  /\ SubSeq(events', 1, Len(events)) = events
                /\ IF isDoc /\ line.finish /\ pending # <<>>
                   THEN /\ new # <<>>
                        /\ new[Len(new)] = [type |-> "tool_calls", tool_calls |-> pending]
                        /\ \A k \in 1..(Len(new) - 1) : new[k].type # "tool_calls"
                        /\ tool_calls' = <<>>
                        /\ ~thinking_started'
                        /\ ~OpenAfter(SubSeq(events', 1, Len(events') - 1))
                   ELSE /\ \A k \in 1..Len(new) : new[k].type # "tool_calls"
                        /\ tool_calls' = pending]_vars

\* C8 witness: two batches were yielded, the second one right after a
\* span-close, and nothing is pending.
C8_Witness ==
    /\ Len(BatchedCalls(events)) >= 2
    /\ Len(events) >= 2
    /\ events[Len(events)].type = "tool_calls"
    /\ events[Len(events) - 1] = [type |-> "thinking", content |-> "\n</think>\n"]
    /\ Len(SelectSeq(events, LAMBDA e : e.type = "tool_calls")) = 2
    /\ tool_calls = <<>>

\* C9: a payload that is not JSON yields nothing, leaves the span state and
\* the pending batch as they are and does not end the stream; so the chunks
\* yielded for any lines are those yielded for the same lines without the
\* payloads that are not JSON.
C9_MalformedLineSkipped ==
    /\ [][(ReadLineStep /\ lines'[Len(lines')].kind = "malformed") =>
            /\ events' = events
            /\ thinking_started' = thinking_started
            /\ tool_calls' = tool_calls
            /\ st' = "streaming"]_vars
    /\ [](LET s == process_lines(Started, WithoutMalformed(lines))
          IN  /\ events = s.events
              /\ tool_calls = s.tool_calls
              /\ thinking_started = s.thinking_started)

\* C9 witness: an unparsable payload was read between a thought and a text
\* document while a span was open and calls were pending, and the stream
\* went on to its end.
C9_Witness ==
    /\ Len(lines) = 3
    /\ lines[1] = Doc(<<ThoughtA, CallF>>, FALSE)
    /\ lines[2] = Malformed
    /\ lines[3] = Doc(<<TextB>>, TRUE)
    /\ st = "ended"
    /\ Len(events) = 5

\* C20: when the response ends while tool calls are pending, no batch is
\* emitted for them: the end of the response adds no chunk, the pending
\* calls are in no batch, and the sequence ends there.
C20_PendingCallsDroppedAtEnd ==
    [][(st = "ended" \/ st' = "ended")
        => /\ events' = events
           /\ Len(BatchedCalls(events')) + Len(tool_calls) = Len(CallsOfLines(lines))
           /\ BatchedCalls(events') \o tool_calls
                = [k \in 1..Len(CallsOfLines(lines)) |->
                     [id |-> CallsOfLines(lines)[k].id, type |-> "function",
                      function |-> [name |-> CallsOfLines(lines)[k].name,
                                    arguments |-> json_dumps(CallsOfLines(lines)[k].args)]]]
           /\ st' = "ended"]_vars

\* C20 witness: the response ended after a document with a text and a
\* document with a call and no finish reason; the text is the only chunk.
C20_Witness ==
    /\ st = "ended"
    /\ lines = <<Doc(<<TextB>>, FALSE), Doc(<<CallF>>, FALSE)>>
    /\ Len(tool_calls) = 1
    /\ events = <<text(TextB.text)>>

\* Whether the chunks es keep the thinking spans bracketed, read from a
\* place where a span is open or not: a span-open only when none is open, a
\* span-close and a thinking delta only when one is open, a text delta and a
\* batch only when none is open.
RECURSIVE Bracketed(_, _)
Bracketed(es, open) ==
    IF es = <<>> THEN TRUE
    ELSE IF Head(es).type = "thinking" /\ Head(es).content = "<think>\n"
         THEN ~open /\ Bracketed(Tail(es), TRUE)
         ELSE IF Head(es).type = "thinking" /\ Head(es).content = "\n</think>\n"
              THEN open /\ Bracketed(Tail(es), FALSE)
              ELSE IF Head(es).type = "thinking"
                   THEN open /\ Bracketed(Tail(es), open)
                   ELSE ~open /\ Bracketed(Tail(es), open)

\* C21: in every prefix of the chunks yielded, the span-open and span-close
\* markers alternate starting with an open, a thinking delta lies inside an
\* open span, and a text delta or a batch lies outside every span.
C21_SpanBracketing ==
    \A n \in 0..Len(events) : Bracketed(SubSeq(events, 1, n), FALSE)

\* C21 witness: two spans were opened and closed, each by a text.
C21_Witness ==
    /\ lines = <<Doc(<<ThoughtA, TextB>>, FALSE), Doc(<<ThoughtA, TextB>>, FALSE)>>
    /\ Len(events) = 8
    /\ events[5] = thinking("<think>\n")
    /\ events[7] = thinking("\n</think>\n")

\* C22: when the response was read to its end without error, every
\* span-open marker is followed by a span-close marker: no span is open
\* after the last chunk.
C22_SpanClosedAtEnd ==
    st = "ended" => ~OpenAfter(events)

\* C27: a line that parses and carries an empty candidate list, or a
\* document without parts and without finish reason, yields no chunk, leaves
\* the generator's state as it is, and the reading goes on.
C27_CandidatelessLineSkipped ==
    [][(/\ ReadLineStep
        /\ \/ lines'[Len(lines')].kind = "nocandidates"
           \/ lines'[Len(lines')] = Doc(<<>>, FALSE))
        => /\ st' = "streaming"
           /\ events' = events
           /\ thinking_started' = thinking_started
           /\ tool_calls' = tool_calls]_vars

-----------------------------------------------------------------------------
\* Properties of the message translation.

\* An assistant message that carries tool calls and no text.
ToolCallsOnly(message) ==
    /\ message.role = "assistant"
    /\ message.tool_calls # <<>>
    /\ message.content \in {NoContent, "  "}

\* The functionCall parts expected for the tool calls of a message.
ExpectedCalls(message) ==
    [k \in 1..Len(message.tool_calls) |->
        [functionCall |->
            [id |-> message.tool_calls[k].id,
             name |-> message.tool_calls[k].function.name,
             args |-> IF message.tool_calls[k].function.arguments = "oops"
                      THEN [query |-> "oops"]
                      ELSE [parsed |-> message.tool_calls[k].function.arguments]]]]

\* C10: when the last two messages translated are assistant messages with
\* tool calls only, their calls are the last parts of one model turn, the
\* first message's calls followed by the second's in their order, and the
\* pair added at most one turn; a conversation of just these two messages
\* yields exactly that one model turn.
C10_SplitToolCallTurnsMerged ==
    LET n == Len(openai_messages)
        turns == antigravity_messages
    IN  (n >= 2 /\ ToolCallsOnly(openai_messages[n - 1]) /\ ToolCallsOnly(openai_messages[n]))
        => LET calls == ExpectedCalls(openai_messages[n - 1]) \o ExpectedCalls(openai_messages[n])
               before == openai_message_to_antigravity(SubSeq(openai_messages, 1, n - 2))
           IN  /\ turns # <<>>
               /\ turns[Len(turns)].role = "model"
               /\ Len(turns[Len(turns)].parts) >= Len(calls)
               /\ SubSeq(turns[Len(turns)].parts,
                         Len(turns[Len(turns)].parts) - Len(calls) + 1,
                         Len(turns[Len(turns)].parts)) = calls
               /\ Len(turns) <= Len(before) + 1
               /\ Len(turns) >= Len(before)
               /\ SubSeq(turns, 1, Len(turns) - 1) = SubSeq(before, 1, Len(turns) - 1)
               /\ (n = 2 => turns = <<[role |-> "model", parts |-> calls]>>)

\* C10 witness: a conversation of two assistant messages with tool calls
\* only became one model turn of three functionCall parts.
C10_Witness ==
    /\ openai_messages = <<[role |-> "assistant", content |-> NoContent, tool_calls |-> <<Call1>>],
                           [role |-> "assistant", content |-> "  ", tool_calls |-> <<Call2, Call3>>]>>
    /\ Len(antigravity_messages) = 1
    /\ Len(antigravity_messages[1].parts) = 3

\* A step of the translation loop that takes a tool message.
ToolStep ==
    /\ Len(openai_messages') = Len(openai_messages) + 1
    /\ openai_messages'[Len(openai_messages')].role = "tool"

\* The turns of msgs that are model turns with a functionCall of this id.
MatchingTurns(msgs, id) ==
    {j \in 1..Len(msgs) :
        /\ msgs[j].role = "model"
        /\ \E k \in 1..Len(msgs[j].parts) :
              /\ "functionCall" \in DOMAIN msgs[j].parts[k]
              /\ msgs[j].parts[k].functionCall.id = id}

\* The name of the first functionCall of this id in the latest matching turn.
NearestName(msgs, id) ==
    LET j == CHOOSE m \in MatchingTurns(msgs, id) : \A o \in MatchingTurns(msgs, id) : o <= m
        ks == {k \in 1..Len(msgs[j].parts) :
                 /\ "functionCall" \in DOMAIN msgs[j].parts[k]
                 /\ msgs[j].parts[k].functionCall.id = id}
    IN  msgs[j].parts[CHOOSE k \in ks : \A o \in ks : k <= o].functionCall.name

\* The last part of the last turn of msgs.
LastPart(msgs) == msgs[Len(msgs)].parts[Len(msgs[Len(msgs)].parts)]

\* C11: when a tool message is translated whose tool_call_id is the id of a
\* functionCall in an earlier model turn, the functionResponse part it adds
\* carries that id and the name of the matching functionCall of the nearest
\* such model turn, scanning backward.
C11_ToolResponseNamedByNearestCall ==
    [][ToolStep =>
        LET message == openai_messages'[Len(openai_messages')]
        IN  MatchingTurns(antigravity_messages, message.tool_call_id) # {}
            => /\ antigravity_messages' # <<>>
               /\ "functionResponse" \in DOMAIN LastPart(antigravity_messages')
               /\ LastPart(antigravity_messages').functionResponse.id = message.tool_call_id
               /\ LastPart(antigravity_messages').functionResponse.name
                    = NearestName(antigravity_messages, message.tool_call_id)]_vars

\* C11 witness: two model turns called id c1 under different names and the
\* tool result for c1 took the name of the later one.
C11_Witness ==
    /\ Len(openai_messages) = 3
    /\ openai_messages[1].role = "assistant" /\ openai_messages[1].tool_calls = <<Call1>>
    /\ openai_messages[2].role = "assistant" /\ openai_messages[2].tool_calls = <<Call4>>
    /\ openai_messages[2].content = "hi"
    /\ openai_messages[3].role = "tool" /\ openai_messages[3].tool_call_id = "c1"
    /\ Len(antigravity_messages) = 3
    /\ antigravity_messages[3].parts
         = <<[functionResponse |-> [id |-> "c1", name |-> "search", response |-> [output |-> "r"]]]>>

\* A turn of role user all of whose parts are functionResponse parts.
OnlyToolResponses(turn) ==
    /\ turn.role = "user"
    /\ \A k \in 1..Len(turn.parts) : "functionResponse" \in DOMAIN turn.parts[k]

\* The number of tool messages that end the conversation msgs.
RECURSIVE TrailingTools(_)
TrailingTools(msgs) ==
    IF msgs = <<>> \/ msgs[Len(msgs)].role # "tool" THEN 0
    ELSE 1 + TrailingTools(SubSeq(msgs, 1, Len(msgs) - 1))

\* The functionResponse part of tool message number j of msgs is part p.
RespondsTo(p, msgs, j) ==
    /\ "functionResponse" \in DOMAIN p
    /\ p.functionResponse.id = msgs[j].tool_call_id
    /\ p.functionResponse.response = [output |-> msgs[j].content]

\* C12: the functionResponse part of a tool message is appended to the
\* last upstream turn exactly when that turn has role user and holds only
\* functionResponse parts, and forms a new user turn otherwise; so a run of
\* k tool messages that starts a turn yields one user turn of k
\* functionResponse parts in the order of the messages.
C12_ToolResponsesMerged ==
    [][ToolStep =>
        LET before == antigravity_messages
            turns == antigravity_messages'
            n == Len(openai_messages')
            k == TrailingTools(openai_messages')
            start == openai_message_to_antigravity(SubSeq(openai_messages', 1, n - k))
            merges == before # <<>> /\ OnlyToolResponses(before[Len(before)])
        IN  /\ turns # <<>>
            /\ RespondsTo(LastPart(turns), openai_messages', n)
            /\ merges <=> Len(turns) = Len(before)
            /\ ~merges <=> (Len(turns) = Len(before) + 1 /\ Len(turns[Len(turns)].parts) = 1)
            /\ turns[Len(turns)].role = "user"
            /\ SubSeq(turns, 1, Len(turns) - 1) = SubSeq(before, 1, Len(turns) - 1)
            /\ merges => turns[Len(turns)].parts
                           = Append(before[Len(before)].parts, LastPart(turns))
            /\ (start = <<>> \/ ~OnlyToolResponses(start[Len(start)]))
                => /\ Len(turns) = Len(start) + 1
                   /\ Len(turns[Len(turns)].parts) = k
                   /\ \A j \in 1..k :
                        RespondsTo(turns[Len(turns)].parts[j], openai_messages', n - k + j)]_vars

\* C12 witness: a user message and two tool messages became a user turn of
\* text and one user turn of the two functionResponse parts in their order.
C12_Witness ==
    /\ Len(openai_messages) = 3
    /\ openai_messages[1].role = "user"
    /\ openai_messages[2].role = "tool" /\ openai_messages[2].tool_call_id = "c3"
    /\ openai_messages[3].role = "tool" /\ openai_messages[3].tool_call_id = "c1"
    /\ Len(antigravity_messages) = 2
    /\ Len(antigravity_messages[2].parts) = 2
    /\ antigravity_messages[2].parts[1].functionResponse.id = "c3"
    /\ antigravity_messages[2].parts[2].functionResponse.id = "c1"

\* The kinds of part a turn holds.
PartKinds(turn) == UNION {DOMAIN turn.parts[k] : k \in 1..Len(turn.parts)}

\* C29: in the translated conversation every user turn consists of
\* functionResponse parts only or holds none, and every model turn holds
\* text and functionCall parts only: a tool result is never merged into a
\* turn with user text or images.
C29_TurnsHomogeneous ==
    \A j \in 1..Len(antigravity_messages) :
        LET turn == antigravity_messages[j]
        IN  /\ turn.role \in {"user", "model"}
            /\ turn.role = "user"
                  => \/ PartKinds(turn) = {"functionResponse"}
                     \/ PartKinds(turn) \subseteq {"text", "inlineData"}
            /\ turn.role = "model" => PartKinds(turn) \subseteq {"text", "functionCall"}

\* C29 witness: a tool result between two user messages, the first with an
\* image, stands in a turn of its own.
C29_Witness ==
    /\ Len(openai_messages) = 3
    /\ openai_messages[1].role = "user" /\ openai_messages[1].content.urls # <<>>
    /\ openai_messages[2].role = "tool"
    /\ openai_messages[3].role = "user"
    /\ Len(antigravity_messages) = 3
    /\ PartKinds(antigravity_messages[1]) = {"text", "inlineData"}
    /\ PartKinds(antigravity_messages[2]) = {"functionResponse"}
    /\ PartKinds(antigravity_messages[3]) = {"text"}

\* The parts of the turns of msgs, in order.
RECURSIVE AllParts(_)
AllParts(msgs) == IF msgs = <<>> THEN <<>> ELSE Head(msgs).parts \o AllParts(Tail(msgs))

IsFunctionCall(p) == "functionCall" \in DOMAIN p
IsFunctionResponse(p) == "functionResponse" \in DOMAIN p

\* The tool calls of the assistant messages, in order.
RECURSIVE InputCalls(_)
InputCalls(messages) ==
    IF messages = <<>> THEN <<>>
    ELSE (IF Head(messages).role = "assistant" THEN Head(messages).tool_calls ELSE <<>>)
         \o InputCalls(Tail(messages))

\* The tool messages, in order.
InputResults(messages) == SelectSeq(messages, LAMBDA m : m.role = "tool")

\* C30: the functionCall parts of the translated conversation, in order,
\* are the tool calls of the assistant messages in order, and its
\* functionResponse parts, in order, are the tool messages in order.
C30_CallsAndResultsConserved ==
    LET calls == SelectSeq(AllParts(antigravity_messages), IsFunctionCall)
        responses == SelectSeq(AllParts(antigravity_messages), IsFunctionResponse)
        tool_calls_in == InputCalls(openai_messages)
        results_in == InputResults(openai_messages)
    IN  /\ Len(calls) = Len(tool_calls_in)
        /\ \A k \in 1..Len(calls) :
               /\ calls[k].functionCall.id = tool_calls_in[k].id
               /\ calls[k].functionCall.name = tool_calls_in[k].function.name
               /\ calls[k].functionCall.args = parse_arguments(tool_calls_in[k].function.arguments)
        /\ Len(responses) = Len(results_in)
        /\ \A k \in 1..Len(responses) :
               /\ responses[k].functionResponse.id = results_in[k].tool_call_id
               /\ responses[k].functionResponse.response.output = results_in[k].content

\* C30 witness: the calls of two assistant messages were merged into one
\* model turn, in order, and the tool result follows in a user turn.
C30_Witness ==
    /\ Len(openai_messages) = 3
    /\ openai_messages[1].role = "assistant" /\ openai_messages[1].tool_calls = <<Call1>>
    /\ openai_messages[2].role = "assistant" /\ openai_messages[2].tool_calls = <<Call2, Call3>>
    /\ openai_messages[3].role = "tool" /\ openai_messages[3].tool_call_id = "c3"
    /\ Len(antigravity_messages) = 2
    /\ Len(antigravity_messages[1].parts) = 3
    /\ antigravity_messages[1].parts[1].functionCall.id = "c1"
    /\ antigravity_messages[1].parts[2].functionCall.id = "c2"
    /\ antigravity_messages[1].parts[3].functionCall.id = "c3"
    /\ antigravity_messages[2].parts[1].functionResponse.id = "c3"

-----------------------------------------------------------------------------
\* Properties of the request handlers.

\* The chunk of the streamed response that stands for the event e.
Delta(e) ==
    IF e.type = "tool_calls"
    THEN [tool_calls |-> e.tool_calls, finish_reason |-> "null"]
    ELSE [content |-> <<e.content>>, finish_reason |-> "null"]

\* One chunk per event, in the order of the events.
Projected(es) == [k \in 1..Len(es) |-> Delta(es[k])]

\* The positions of the tool-call batches among the events es.
Batches(es) == {k \in 1..Len(es) : es[k].type = "tool_calls"}

\* The contents of the text events among es, in order.
RECURSIVE TextsOf(_)
TextsOf(es) ==
    IF es = <<>> THEN <<>>
    ELSE (IF Head(es).type = "text" THEN <<Head(es).content>> ELSE <<>>) \o TextsOf(Tail(es))

\* The number of sentinel lines among the chunks.
Sentinels(chunks) == Cardinality({k \in 1..Len(chunks) : chunks[k] = [data |-> "[DONE]"]})

\* The chunks that carry a finish reason of a normal end.
NormalFinals(chunks) ==
    {k \in 1..Len(chunks) :
        /\ "finish_reason" \in DOMAIN chunks[k]
        /\ chunks[k].finish_reason \in {"stop", "tool_calls"}}

\* C13: in streaming mode, while the events arrive the response holds one
\* chunk per event in their order, a content delta for a thinking or text
\* event and a tool-call delta for a batch; when the events end without
\* error it holds these, then one final chunk whose finish_reason is
\* tool_calls when a batch was among the events and stop otherwise, then the
\* sentinel line; and nothing is added after that.
C13_StreamingProjection ==
    [][/\ (stream' /\ pc' = "reading") => out' = Projected(events')
       /\ (stream' /\ pc' = "done" /\ st' = "ended")
            => /\ out' = Projected(events')
                           \o <<[finish_reason |-> IF Batches(events') # {}
                                                   THEN "tool_calls" ELSE "stop"],
                                [data |-> "[DONE]"]>>
               /\ Cardinality(NormalFinals(out')) = 1
               /\ Sentinels(out') = 1
       /\ (pc = "done" /\ pc' = "done") => out' = out]_vars

\* C13 witness: a streamed response of a text and a batch of one call ended
\* with the final chunk tool_calls and the sentinel line.
C13_Witness ==
    /\ stream
    /\ pc = "done"
    /\ st = "ended"
    /\ lines = <<Doc(<<TextB>>, FALSE), Doc(<<CallF>>, TRUE)>>
    /\ Len(out) = 4
    /\ out[3] = [finish_reason |-> "tool_calls"]
    /\ out[4] = [data |-> "[DONE]"]

\* C14: in streaming mode, when the acquisition of a credential, the
\* translation or the upstream response fails after k chunks, the response
\* is these k chunks, one error chunk and the sentinel line, with no final
\* chunk of a normal end; and every finished response holds exactly one
\* sentinel line, its last.
C14_StreamingFailure ==
    [][(stream' /\ pc' = "done" /\ pc # "done")
        => /\ Sentinels(out') = 1
           /\ out'[Len(out')] = [data |-> "[DONE]"]
           /\ st' # "ended"
                => /\ Len(out') = Len(out) + 2
                   /\ SubSeq(out', 1, Len(out)) = out
                   /\ out = Projected(events')
                   /\ out'[Len(out) + 1].finish_reason = "error"
                   /\ NormalFinals(out') = {}]_vars

\* C14 witness: the upstream response failed after a thinking span was
\* opened; the two chunks are followed by the error chunk and the sentinel.
C14_Witness ==
    /\ stream
    /\ pc = "done"
    /\ st = "failed"
    /\ Len(events) = 2
    /\ Len(out) = 4
    /\ out[3].finish_reason = "error"

\* C15: in buffered mode, when the events end, the message returned has as
\* content the text deltas concatenated in order, without the thinking
\* deltas and the span markers, has as tool calls those of the last batch
\* among the events, and has the finish_reason tool_calls when a batch was
\* among the events and stop otherwise.
C15_BufferedProjection ==
    [][(~stream' /\ pc' = "done" /\ pc # "done" /\ st' = "ended")
        => /\ result'.status_code = 200
           /\ result'.message.content = TextsOf(events')
           /\ Batches(events') = {}
                => /\ "tool_calls" \notin DOMAIN result'.message
                   /\ result'.finish_reason = "stop"
           /\ Batches(events') # {}
                => /\ result'.message.tool_calls
                        = events'[CHOOSE k \in Batches(events') :
                                     \A j \in Batches(events') : j <= k].tool_calls
                   /\ result'.finish_reason = "tool_calls"]_vars

\* C15 witness: a buffered response of a thought, a text and two batches
\* returned the text and the second batch.
C15_Witness ==
    /\ ~stream
    /\ pc = "done"
    /\ st = "ended"
    /\ lines = <<Doc(<<ThoughtA, TextB, CallF>>, TRUE), Doc(<<CallG>>, TRUE)>>
    /\ result.message.content = <<TextB.text>>
    /\ Len(result.message.tool_calls) = 1
    /\ result.message.tool_calls[1].id = CallG.id

\* A step in which get_token() returns None to the handler.
NoCredentialStep ==
    /\ Len(acquired') = Len(acquired) + 1
    /\ acquired'[Len(acquired')] = NoIndex

\* C16: when get_token() returns None to a request, the request fails at
\* once with the error "No available token", as an error chunk in streaming
\* mode and as a 500 in buffered mode, no generation request is POSTed in
\* that step, and none is POSTed for the request afterwards; when it is
\* generate_request_body that gets None, none was POSTed at all.
C16_AuthShortCircuit ==
    [][/\ NoCredentialStep
            => /\ pc' = "done"
               /\ posts' = posts
               /\ pc = "accepted" => posts' = 0 /\ request_ids' = request_ids
               /\ stream' => out' = <<[content |-> <<"Error: ", "No available token">>,
                                        finish_reason |-> "error"],
                                       [data |-> "[DONE]"]>>
               /\ ~stream' => result' = [status_code |-> 500, detail |-> "No available token"]
       /\ (pc = "done" /\ pc' = "done") => posts' = posts]_vars

\* C16 witness: a streaming request found every credential unusable and
\* ended with the error chunk, no generation request POSTed.
C16_Witness ==
    /\ stream
    /\ pc = "done"
    /\ acquired = <<NoIndex>>
    /\ Len(file) = 1
    /\ posts = 0
    /\ Len(out) = 2

\* C17: any two request bodies built by generate_request_body carry
\* different requestId values.
C17_RequestIdsDistinct ==
    \A i, j \in 1..Len(request_ids) : i # j => request_ids[i] # request_ids[j]

\* The upstream answers the generation request of this step with a status
\* other than 200.
RejectedStep ==
    /\ pc = "built"
    /\ Len(upstream_calls') = Len(upstream_calls) + 1
    /\ upstream_calls'[Len(upstream_calls')].answer \in {"403", "500"}

\* C28: when the upstream answers with a non-success status,
\* generate_assistant_response yields no event and fails, with the
\* permission error for status 403 and the request-failure error for any
\* other status; a streaming client then receives exactly one error chunk
\* followed by [DONE], a buffered one the 500 response with that error.
C28_UpstreamRejection ==
    [][RejectedStep
         => LET status == upstream_calls'[Len(upstream_calls')].answer
                e == IF status = "403" THEN "Account lacks permission" ELSE "API request failed"
            IN  /\ pc' = "done"
                /\ events' = <<>>
                /\ stream' => out' = <<[content |-> <<"Error: ", e>>, finish_reason |-> "error"],
                                        [data |-> "[DONE]"]>>
                /\ ~stream' => out' = <<>> /\ result' = [status_code |-> 500, detail |-> e]]_vars

\* C28 witness: a streaming request whose generation POST was answered 403
\* ended with the permission error chunk and [DONE].
C28_Witness ==
    /\ stream
    /\ pc = "done"
    /\ posts = 1
    /\ upstream_calls[Len(upstream_calls)].answer = "403"
    /\ out = <<error_chunk(PermissionDenied), DONE>>
    /\ events = <<>>

\* The credential generate_request_body took its token from, whose
\* projectId and sessionId the body carries, and the credential
\* generate_assistant_response put in the Authorization header, by their
\* places in accounts.json.
BodyCredential == acquired[1]
AuthorizationCredential == acquired[2]

\* C23: within one chat request the credential whose project and session
\* identifiers are attached to the request body is the credential whose
\* access token authenticates the upstream call of that request.
C23_OneCredentialPerRequest ==
    posts = 1 => BodyCredential = AuthorizationCredential

\* C24: with a pool of N valid credentials and requests served one after
\* another, N consecutive chat requests authenticate their upstream calls
\* with N distinct credentials.
C24_RequestRotationFair ==
    (AllValid(file, now) /\ Len(file) >= 2 /\ served = Len(file) /\ Len(upstream_calls) = served)
        => \A i, j \in 1..Len(upstream_calls) :
               i # j => upstream_calls[i].index # upstream_calls[j].index

-----------------------------------------------------------------------------
\* Properties of the processes around accounts.json.

\* C18: with two requests served side by side, their coroutines never have
\* a refresh of the same credential in flight at the same time, and a
\* coroutine that persists the pool read it after every completed persist:
\* what it writes differs from the pool last persisted only in the
\* credential it refreshed.
C18_RefreshCriticalSection ==
    /\ \A r1, r2 \in Requests :
        (r1 # r2 /\ gt[r1].pc = "refreshing" /\ gt[r2].pc = "refreshing")
            => gt[r1].index # gt[r2].index
    /\ \A r \in Requests :
        gt[r].pc \in {"opening", "writing"}
            => /\ gt[r].read_at = writes
               /\ Len(gt[r].accounts) = Len(committed)
               /\ \A j \in 1..Len(committed) :
                    j # gt[r].index + 1 => gt[r].accounts[j] = committed[j]

\* C18 witness: the second request persists its refresh after the first
\* request, still being served, refreshed and persisted the other credential.
C18_Witness ==
    /\ Len(file) = 0
    /\ Len(committed) = 2
    /\ writes = 1
    /\ gt[1].pc = "returned" /\ gt[1].calls = 1
    /\ gt[2].pc = "writing" /\ gt[2].calls = 1
    /\ gt[2].index = 1

\* C19: a read of accounts.json made while a persist is between its open
\* and its close sees the pool as it was before the persist or the pool the
\* persist writes.
C19_AtomicPersistence ==
    observed.during => observed.value \in {observed.old, observed.new}

\* C26: a record that save_token() appended while the proxy is running is
\* in accounts.json once save_token() has returned and no persist is under
\* way, whatever refreshes get_token() persisted in between.
C26_NoLostCredential ==
    (sv.pc = "done" /\ Writing = {}) => \E k \in 1..Len(file) : file[k] = NewAccount

====
